---- MODULE Spec2Model ----
(***************************************************************************)
(* Model of the gitops-operator control logic:                             *)
(*   - pkg/controller/argocd/argocd_controller.go: the ConsoleLink         *)
(*     reconciler (ReconcileArgoCD.Reconcile and its helpers);             *)
(*   - pkg/controller/gitopsservice/dependency: the dependency installer   *)
(*     (Dependency.Install, createResourceIfAbsent, waitForOperator).      *)
(* Every call of the cluster API client is one atomic step, so that other  *)
(* actors of the cluster can act between two calls of the same handler.    *)
(* The step on which a handler returns leads to pc "done": that state is   *)
(* the instant of the return, and the cluster as the handler left it.      *)
(***************************************************************************)
EXTENDS Naturals, Sequences, FiniteSets

VARIABLES
    \* ---- cluster objects the reconciler works on
    primaries,    \* identities at which an ArgoCD resource exists
    route,        \* the Route argocd/argocd-server: NoObject or [host]
    links,        \* the cluster's ConsoleLink objects (cluster scoped)
    \* ---- one Reconcile invocation
    rpc,          \* position of the running Reconcile
    request,      \* reconcile.Request.NamespacedName
    argoCDRoute,  \* the Route object the Get filled in
    found,        \* the ConsoleLink object the Get filled in
    rcalls,       \* API calls of this invocation, in order, with outcome
    rres,         \* (reconcile.Result, error) returned
    \* ---- cluster objects the installer works on
    objs,         \* the cluster's Namespace, OperatorGroup and Subscription objects
    csvs,         \* the cluster's ClusterServiceVersion objects
    extWrites,    \* objects other actors have created so far
    \* ---- the Dependency and one Install run
    prefix,       \* Dependency.prefix
    ipc,          \* position of the running Install
    idx,          \* index of the operator the loop is at
    step,         \* 1 namespace, 2 operator group, 3 subscription
    stepCalls,    \* API calls of the latest createResourceIfAbsent, with outcome
    stepRet,      \* what the latest createResourceIfAbsent returned
    touched,      \* operators an API call was issued for in this run
    elapsed,      \* time since wait.PollImmediate was entered
    polled,       \* the condition was evaluated at the current instant
    pollReads,    \* evaluations of the condition in the current poll
    lastPhase,    \* operator index -> csv.Status.Phase last read in this run
    pollRet,      \* outcome of the Get of the latest evaluation of the condition
    ierr,         \* error returned by Install
    \* ---- the watches of the controller
    event,        \* the latest event a watch delivered
    passed,       \* what the watch's predicate answered for it
    enqueued,     \* the requests its handler enqueued for it
    queue         \* the controller's work queue (requests are deduplicated)

rvars == <<primaries, route, links, rpc, request, argoCDRoute, found, rcalls, rres>>
ivars == <<objs, csvs, extWrites, prefix, ipc, idx, step, stepCalls, stepRet,
           touched, elapsed, polled, pollReads, lastPhase, pollRet, ierr>>
wvars == <<event, passed, enqueued, queue>>
vars == <<rvars, ivars, wvars>>

NoObject == [absent |-> TRUE]
NoResult == [pending |-> TRUE]
NoEvent == [type |-> "none"]

(***************************************************************************)
(* Reconciler: constants and pure helpers                                  *)
(***************************************************************************)
argocdNS == "argocd"
consoleLinkName == "argocd"
argocdInstanceName == "argocd"
argocdRouteName == "argocd-server"

imageDataURL(data) == "data:image/png;base64," \o data

image == imageDataURL("iVBORw0KGgo")

newConsoleLink(href, text) ==
    [name |-> consoleLinkName, text |-> text, href |-> href,
     location |-> "ApplicationMenu", section |-> "Application Stages",
     imageURL |-> image]

\* Route hosts and request identities the model draws from.
Hosts == {"foo.example.com", "bar.example.com"}
TargetIdentity == [namespace |-> argocdNS, name |-> argocdInstanceName]
Identities == {TargetIdentity, [namespace |-> argocdNS, name |-> "argocd-2"]}

\* A ConsoleLink another actor may have created under the same name.
ManualLink ==
    [name |-> consoleLinkName, text |-> "Manual", href |-> "https://manual.example.com",
     location |-> "ApplicationMenu", section |-> "Application Stages",
     imageURL |-> image]

\* Outcomes of an API call: nil, the two expected errors, any other error.
ErrNil == "nil"
ErrNotFound == "NotFound"
ErrAlreadyExists == "AlreadyExists"
ErrInternal == "InternalError"

LinkNamed(n) == {l \in links : l.name = n}

\* Variant: the host is used as the href, without the scheme.
desiredConsoleLinkNoScheme(host) == newConsoleLink(host, "ArgoCD")

\* consoleLink := newConsoleLink("https://"+argoCDRoute.Spec.Host, "ArgoCD")
desiredConsoleLink(host) == newConsoleLink("https://" \o host, "ArgoCD")

RCall(verb, kind, ret) == [verb |-> verb, kind |-> kind, ret |-> ret]

\* return reconcile.Result{}, err
RReturn(err) == [requeue |-> FALSE, err |-> err]

(***************************************************************************)
(* ReconcileArgoCD.Reconcile, one action per API call                      *)
(***************************************************************************)
ReconcileStart ==
    /\ rpc \in {"idle", "done"}
    /\ \E req \in Identities : request' = req
    /\ rpc' = "getPrimary"
    /\ argoCDRoute' = NoObject
    /\ found' = NoObject
    /\ rcalls' = <<>>
    /\ rres' = NoResult
    /\ UNCHANGED <<primaries, route, links, ivars, wvars>>

\* r.client.Get(ctx, request.NamespacedName, argocdInstance)
ReconcileGetPrimary ==
    /\ rpc = "getPrimary"
    /\ \/ /\ request \in primaries
          /\ rcalls' = Append(rcalls, RCall("get", "ArgoCD", ErrNil))
          \* SetControllerReference(argocdInstance, newArgoCDRoute(), r.scheme):
          \* owner and route share argocdNS and the type is registered: nil.
          /\ rpc' = "getRoute"
          /\ rres' = rres
       \/ /\ request \notin primaries
          /\ rcalls' = Append(rcalls, RCall("get", "ArgoCD", ErrNotFound))
          /\ rpc' = "deleteGet"
          /\ rres' = rres
       \/ /\ rcalls' = Append(rcalls, RCall("get", "ArgoCD", ErrInternal))
          /\ rpc' = "done"
          /\ rres' = RReturn(ErrInternal)
    /\ UNCHANGED <<primaries, route, links, request, argoCDRoute, found, ivars, wvars>>

\* r.client.Get(ctx, {argocdRouteName, argocdNS}, argoCDRoute)
ReconcileGetRoute ==
    /\ rpc = "getRoute"
    /\ \/ /\ route # NoObject
          /\ rcalls' = Append(rcalls, RCall("get", "Route", ErrNil))
          /\ argoCDRoute' = route
          /\ rpc' = "getLink"
          /\ rres' = rres
       \/ /\ route = NoObject
          /\ rcalls' = Append(rcalls, RCall("get", "Route", ErrNotFound))
          /\ argoCDRoute' = argoCDRoute
          /\ rpc' = "deleteGet"
          /\ rres' = rres
       \/ /\ rcalls' = Append(rcalls, RCall("get", "Route", ErrInternal))
          /\ argoCDRoute' = argoCDRoute
          /\ rpc' = "done"
          /\ rres' = RReturn(ErrInternal)
    /\ UNCHANGED <<primaries, route, links, request, found, ivars, wvars>>

\* Variant: a ConsoleLink that is found is rewritten from the Route's host.
ReconcileGetLinkUpdating ==
    /\ rpc = "getLink"
    /\ \/ /\ LinkNamed(consoleLinkName) = {}
          /\ rcalls' = Append(rcalls, RCall("get", "ConsoleLink", ErrNotFound))
          /\ found' = found
          /\ links' = links
          /\ rpc' = "createLink"
          /\ rres' = rres
       \/ /\ \E l \in LinkNamed(consoleLinkName) : found' = l
          /\ links' = (links \ LinkNamed(consoleLinkName))
                      \cup {desiredConsoleLink(argoCDRoute.host)}
          /\ rcalls' = Append(rcalls, RCall("get", "ConsoleLink", ErrNil))
          /\ rpc' = "done"
          /\ rres' = RReturn(ErrNil)
       \/ /\ rcalls' = Append(rcalls, RCall("get", "ConsoleLink", ErrInternal))
          /\ found' = found
          /\ links' = links
          /\ rpc' = "done"
          /\ rres' = RReturn(ErrInternal)
    /\ UNCHANGED <<primaries, route, request, argoCDRoute, ivars, wvars>>

\* Variant: a ConsoleLink that is found is deleted and then created anew.
ReconcileGetLinkRecreating ==
    /\ rpc = "getLink"
    /\ \/ /\ LinkNamed(consoleLinkName) = {}
          /\ rcalls' = Append(rcalls, RCall("get", "ConsoleLink", ErrNotFound))
          /\ found' = found
          /\ links' = links
          /\ rpc' = "createLink"
          /\ rres' = rres
       \/ /\ \E l \in LinkNamed(consoleLinkName) : found' = l
          /\ links' = links \ LinkNamed(consoleLinkName)
          /\ rcalls' = rcalls \o <<RCall("get", "ConsoleLink", ErrNil),
                                   RCall("delete", "ConsoleLink", ErrNil)>>
          /\ rpc' = "createLink"
          /\ rres' = rres
       \/ /\ rcalls' = Append(rcalls, RCall("get", "ConsoleLink", ErrInternal))
          /\ found' = found
          /\ links' = links
          /\ rpc' = "done"
          /\ rres' = RReturn(ErrInternal)
    /\ UNCHANGED <<primaries, route, request, argoCDRoute, ivars, wvars>>

\* r.client.Get(ctx, {Name: consoleLink.Name}, found)
ReconcileGetLink ==
    /\ rpc = "getLink"
    /\ \/ /\ LinkNamed(consoleLinkName) = {}
          /\ rcalls' = Append(rcalls, RCall("get", "ConsoleLink", ErrNotFound))
          /\ found' = found
          /\ rpc' = "createLink"
          /\ rres' = rres
       \/ /\ \E l \in LinkNamed(consoleLinkName) : found' = l
          /\ rcalls' = Append(rcalls, RCall("get", "ConsoleLink", ErrNil))
          \* Skip reconcile: ConsoleLink already exists
          /\ rpc' = "done"
          /\ rres' = RReturn(ErrNil)
       \/ /\ rcalls' = Append(rcalls, RCall("get", "ConsoleLink", ErrInternal))
          /\ found' = found
          /\ rpc' = "done"
          /\ rres' = RReturn(ErrInternal)
    /\ UNCHANGED <<primaries, route, links, request, argoCDRoute, ivars, wvars>>

\* Variant: an already-exists answer of the Create is taken as success.
ReconcileCreateLinkIgnoringExists ==
    /\ rpc = "createLink"
    /\ LET consoleLink == desiredConsoleLink(argoCDRoute.host) IN
       \/ /\ LinkNamed(consoleLink.name) = {}
          /\ links' = links \cup {consoleLink}
          /\ rcalls' = Append(rcalls, RCall("create", "ConsoleLink", ErrNil))
          /\ rres' = RReturn(ErrNil)
       \/ /\ LinkNamed(consoleLink.name) # {}
          /\ links' = links
          /\ rcalls' = Append(rcalls, RCall("create", "ConsoleLink", ErrAlreadyExists))
          /\ rres' = RReturn(ErrNil)
       \/ /\ links' = links
          /\ rcalls' = Append(rcalls, RCall("create", "ConsoleLink", ErrInternal))
          /\ rres' = RReturn(ErrInternal)
    /\ rpc' = "done"
    /\ UNCHANGED <<primaries, route, request, argoCDRoute, found, ivars, wvars>>

\* Variant: a Create that answers with an error has stored the object all the same.
ReconcileCreateLinkFailedButStored ==
    /\ rpc = "createLink"
    /\ LET consoleLink == desiredConsoleLink(argoCDRoute.host) IN
       \/ /\ LinkNamed(consoleLink.name) = {}
          /\ links' = links \cup {consoleLink}
          /\ rcalls' = Append(rcalls, RCall("create", "ConsoleLink", ErrNil))
          /\ rres' = RReturn(ErrNil)
       \/ /\ LinkNamed(consoleLink.name) # {}
          /\ links' = links
          /\ rcalls' = Append(rcalls, RCall("create", "ConsoleLink", ErrAlreadyExists))
          /\ rres' = RReturn(ErrAlreadyExists)
       \/ /\ links' = (links \ LinkNamed(consoleLink.name)) \cup {consoleLink}
          /\ rcalls' = Append(rcalls, RCall("create", "ConsoleLink", ErrInternal))
          /\ rres' = RReturn(ErrInternal)
    /\ rpc' = "done"
    /\ UNCHANGED <<primaries, route, request, argoCDRoute, found, ivars, wvars>>

\* r.client.Create(ctx, consoleLink)
ReconcileCreateLink ==
    /\ rpc = "createLink"
    /\ LET consoleLink == desiredConsoleLink(argoCDRoute.host) IN
       \/ /\ LinkNamed(consoleLink.name) = {}
          /\ links' = links \cup {consoleLink}
          /\ rcalls' = Append(rcalls, RCall("create", "ConsoleLink", ErrNil))
          /\ rres' = RReturn(ErrNil)
       \/ /\ LinkNamed(consoleLink.name) # {}
          /\ links' = links
          /\ rcalls' = Append(rcalls, RCall("create", "ConsoleLink", ErrAlreadyExists))
          /\ rres' = RReturn(ErrAlreadyExists)
       \/ /\ links' = links
          /\ rcalls' = Append(rcalls, RCall("create", "ConsoleLink", ErrInternal))
          /\ rres' = RReturn(ErrInternal)
    /\ rpc' = "done"
    /\ UNCHANGED <<primaries, route, request, argoCDRoute, found, ivars, wvars>>

\* Variant: returns nil after the Get, whether or not it found the ConsoleLink.
deleteConsoleLinkIfPresentGetKeep ==
    /\ rpc = "deleteGet"
    /\ \/ /\ rcalls' = Append(rcalls, RCall("get", "ConsoleLink",
                                 IF LinkNamed(consoleLinkName) = {} THEN ErrNotFound ELSE ErrNil))
          /\ rpc' = "done"
          /\ rres' = RReturn(ErrNil)
       \/ /\ rcalls' = Append(rcalls, RCall("get", "ConsoleLink", ErrInternal))
          /\ rpc' = "done"
          /\ rres' = RReturn(ErrInternal)
    /\ UNCHANGED <<primaries, route, links, request, argoCDRoute, found, ivars, wvars>>

\* deleteConsoleLinkIfPresent: r.client.Get(ctx, {Name: consoleLinkName}, ...)
deleteConsoleLinkIfPresentGet ==
    /\ rpc = "deleteGet"
    /\ \/ /\ LinkNamed(consoleLinkName) = {}
          /\ rcalls' = Append(rcalls, RCall("get", "ConsoleLink", ErrNotFound))
          /\ rpc' = "done"
          /\ rres' = RReturn(ErrNil)
       \/ /\ LinkNamed(consoleLinkName) # {}
          /\ rcalls' = Append(rcalls, RCall("get", "ConsoleLink", ErrNil))
          /\ rpc' = "deleteDelete"
          /\ rres' = rres
       \/ /\ rcalls' = Append(rcalls, RCall("get", "ConsoleLink", ErrInternal))
          /\ rpc' = "done"
          /\ rres' = RReturn(ErrInternal)
    /\ UNCHANGED <<primaries, route, links, request, argoCDRoute, found, ivars, wvars>>

\* deleteConsoleLinkIfPresent: return r.client.Delete(ctx, ConsoleLink{Name: consoleLinkName})
deleteConsoleLinkIfPresentDelete ==
    /\ rpc = "deleteDelete"
    /\ \/ /\ LinkNamed(consoleLinkName) # {}
          /\ links' = links \ LinkNamed(consoleLinkName)
          /\ rcalls' = Append(rcalls, RCall("delete", "ConsoleLink", ErrNil))
          /\ rres' = RReturn(ErrNil)
       \/ /\ LinkNamed(consoleLinkName) = {}
          /\ links' = links
          /\ rcalls' = Append(rcalls, RCall("delete", "ConsoleLink", ErrNotFound))
          /\ rres' = RReturn(ErrNotFound)
       \/ /\ links' = links
          /\ rcalls' = Append(rcalls, RCall("delete", "ConsoleLink", ErrInternal))
          /\ rres' = RReturn(ErrInternal)
    /\ rpc' = "done"
    /\ UNCHANGED <<primaries, route, request, argoCDRoute, found, ivars, wvars>>

Reconcile ==
    \/ ReconcileStart
    \/ ReconcileGetPrimary
    \/ ReconcileGetRoute
    \/ ReconcileGetLink
    \/ ReconcileCreateLink
    \/ deleteConsoleLinkIfPresentGet
    \/ deleteConsoleLinkIfPresentDelete

(***************************************************************************)
(* Other actors of the cluster (users, the ArgoCD operator), acting        *)
(* through the same API between the reconciler's calls.                    *)
(***************************************************************************)
PrimaryCreated ==
    /\ rpc # "done"
    /\ \E id \in Identities \ primaries : primaries' = primaries \cup {id}
    /\ UNCHANGED <<route, links, rpc, request, argoCDRoute, found, rcalls, rres, ivars, wvars>>

PrimaryDeleted ==
    /\ rpc # "done"
    /\ \E id \in primaries : primaries' = primaries \ {id}
    /\ UNCHANGED <<route, links, rpc, request, argoCDRoute, found, rcalls, rres, ivars, wvars>>

\* The Route is created, or its host updated.
RouteWritten ==
    /\ rpc # "done"
    /\ \E h \in Hosts : route' = [host |-> h] /\ route' # route
    /\ UNCHANGED <<primaries, links, rpc, request, argoCDRoute, found, rcalls, rres, ivars, wvars>>

RouteDeleted ==
    /\ rpc # "done"
    /\ route # NoObject
    /\ route' = NoObject
    /\ UNCHANGED <<primaries, links, rpc, request, argoCDRoute, found, rcalls, rres, ivars, wvars>>

LinkCreatedByOther ==
    /\ rpc # "done"
    /\ LinkNamed(consoleLinkName) = {}
    /\ links' = links \cup {ManualLink}
    /\ UNCHANGED <<primaries, route, rpc, request, argoCDRoute, found, rcalls, rres, ivars, wvars>>

LinkDeletedByOther ==
    /\ rpc # "done"
    /\ LinkNamed(consoleLinkName) # {}
    /\ links' = links \ LinkNamed(consoleLinkName)
    /\ UNCHANGED <<primaries, route, rpc, request, argoCDRoute, found, rcalls, rres, ivars, wvars>>

ClusterChange ==
    \/ PrimaryCreated
    \/ PrimaryDeleted
    \/ RouteWritten
    \/ RouteDeleted
    \/ LinkCreatedByOther
    \/ LinkDeletedByOther

(***************************************************************************)
(* Installer: descriptors and the objects they stand for                   *)
(***************************************************************************)
addPrefixIfNecessary(pre, name) == IF pre # "" THEN pre \o "-" \o name ELSE name

newArgoCDOperator(pre) ==
    [namespace |-> addPrefixIfNecessary(pre, "argocd"),
     subscription |-> "argocd-operator",
     operatorGroup |-> "argocd-operator-group",
     csv |-> "argocd-operator.v0.0.14"]

newSealedSecretsOperator(pre) ==
    [namespace |-> addPrefixIfNecessary(pre, "cicd"),
     subscription |-> "sealed-secrets-operator-helm",
     operatorGroup |-> "sealed-secrets-operator-group",
     csv |-> "sealed-secrets-operator-helm.v0.0.2"]

newNamespace(name) ==
    [kind |-> "Namespace", namespace |-> "", name |-> name]

newOperatorGroup(namespace, name) ==
    [kind |-> "OperatorGroup", namespace |-> namespace, name |-> name,
     targetNamespaces |-> <<namespace>>]

newSubscription(namespace, name) ==
    [kind |-> "Subscription", namespace |-> namespace, name |-> name,
     channel |-> "alpha", catalogSource |-> "community-operators",
     catalogSourceNamespace |-> "openshift-marketplace", package |-> name]

GetNamespace(o) == newNamespace(o.namespace)
GetOperatorGroup(o) == newOperatorGroup(o.namespace, o.operatorGroup)
GetSubscription(o) == newSubscription(o.namespace, o.subscription)

\* operators := []operatorResource{newSealedSecretsOperator(d.prefix), newArgoCDOperator(d.prefix)}
operators == <<newSealedSecretsOperator(prefix), newArgoCDOperator(prefix)>>

\* Variant: the subscription is handled before the operator group.
StepObjectGroupLast(o, s) ==
    CASE s = 1 -> GetNamespace(o)
      [] s = 2 -> GetSubscription(o)
      [] s = 3 -> GetOperatorGroup(o)

\* The object the loop body hands to createResourceIfAbsent at each step.
StepObject(o, s) ==
    CASE s = 1 -> GetNamespace(o)
      [] s = 2 -> GetOperatorGroup(o)
      [] s = 3 -> GetSubscription(o)

\* Objects stored under the key (kind, namespace, name) of obj.
ObjectsAt(obj) ==
    {x \in objs : x.kind = obj.kind /\ x.namespace = obj.namespace /\ x.name = obj.name}

CSVsAt(namespace, name) ==
    {c \in csvs : c.namespace = namespace /\ c.name = name}

\* The same object as another actor writes it: same key, its own annotation.
WrittenByOther(obj) ==
    [f \in DOMAIN obj \cup {"annotation"} |->
        IF f = "annotation" THEN "created-by-admin" ELSE obj[f]]

Prefixes == {"", "gitops"}
Reasons == {"ComponentUnhealthy", "InstallCheckFailure"}

\* wait.PollImmediate(1*time.Second, 1*time.Minute, waitFunc)
PollInterval == 1
PollTimeout == 60
ErrWaitTimeout == "timed out waiting for the condition"

\* External writes the model allows.
MaxExtWrites == 1

ICall(verb, obj, ret) == [verb |-> verb, kind |-> obj.kind, ret |-> ret]

NoPhase == "unread"

(***************************************************************************)
(* Dependency.Install                                                      *)
(***************************************************************************)
InstallStart ==
    /\ ipc \in {"idle", "done"}
    /\ ipc' = "get"
    /\ idx' = 1
    /\ step' = 1
    /\ stepCalls' = <<>>
    /\ stepRet' = "none"
    /\ touched' = {}
    /\ elapsed' = 0
    /\ polled' = FALSE
    /\ pollReads' = 0
    /\ lastPhase' = [i \in DOMAIN operators |-> NoPhase]
    /\ pollRet' = "none"
    /\ ierr' = ErrNil
    /\ UNCHANGED <<objs, csvs, extWrites, prefix, rvars, wvars>>

\* What follows a createResourceIfAbsent that returned nil: the next step of
\* the loop body, or waitForOperator after the subscription.
AfterStep ==
    IF step < 3
    THEN /\ ipc' = "get"
         /\ step' = step + 1
    ELSE /\ ipc' = "poll"
         /\ step' = step

\* Variant: the Create is issued whatever the Get found.
createResourceIfAbsentGetThenCreate ==
    /\ ipc = "get"
    /\ LET obj == StepObject(operators[idx], step) IN
       \/ /\ stepCalls' = <<ICall("get", obj, IF ObjectsAt(obj) # {} THEN ErrNil
                                                ELSE ErrNotFound)>>
          /\ stepRet' = "none"
          /\ ipc' = "create"
          /\ step' = step
          /\ ierr' = ierr
       \/ /\ stepCalls' = <<ICall("get", obj, ErrInternal)>>
          /\ stepRet' = ErrInternal
          /\ ipc' = "done"
          /\ step' = step
          /\ ierr' = ErrInternal
    /\ touched' = touched \cup {idx}
    /\ UNCHANGED <<objs, csvs, extWrites, prefix, idx, elapsed, polled, pollReads,
                   lastPhase, pollRet, rvars, wvars>>

\* createResourceIfAbsent: err := d.client.Get(ctx, ns, obj). A Get answers nil,
\* not-found or another error, never already-exists (the branch of line 128).
createResourceIfAbsentGet ==
    /\ ipc = "get"
    /\ LET obj == StepObject(operators[idx], step) IN
       \/ /\ ObjectsAt(obj) # {}
          /\ stepCalls' = <<ICall("get", obj, ErrNil)>>
          /\ stepRet' = ErrNil
          /\ AfterStep
          /\ ierr' = ierr
       \/ /\ ObjectsAt(obj) = {}
          /\ stepCalls' = <<ICall("get", obj, ErrNotFound)>>
          /\ stepRet' = "none"
          /\ ipc' = "create"
          /\ step' = step
          /\ ierr' = ierr
       \/ /\ stepCalls' = <<ICall("get", obj, ErrInternal)>>
          /\ stepRet' = ErrInternal
          /\ ipc' = "done"
          /\ step' = step
          /\ ierr' = ErrInternal
    /\ touched' = touched \cup {idx}
    /\ UNCHANGED <<objs, csvs, extWrites, prefix, idx, elapsed, polled, pollReads,
                   lastPhase, pollRet, rvars, wvars>>

\* Variant: an object that exists is overwritten.
createResourceIfAbsentCreateOrUpdate ==
    /\ ipc = "create"
    /\ LET obj == StepObject(operators[idx], step) IN
       \/ /\ objs' = (objs \ ObjectsAt(obj)) \cup {obj}
          /\ stepCalls' = Append(stepCalls, ICall("create", obj, ErrNil))
          /\ stepRet' = ErrNil
          /\ AfterStep
          /\ ierr' = ierr
       \/ /\ objs' = objs
          /\ stepCalls' = Append(stepCalls, ICall("create", obj, ErrInternal))
          /\ stepRet' = ErrInternal
          /\ ipc' = "done"
          /\ step' = step
          /\ ierr' = ErrInternal
    /\ touched' = touched \cup {idx}
    /\ UNCHANGED <<csvs, extWrites, prefix, idx, elapsed, polled, pollReads,
                   lastPhase, pollRet, rvars, wvars>>

\* createResourceIfAbsent: err = d.client.Create(ctx, obj); if err != nil return err
createResourceIfAbsentCreate ==
    /\ ipc = "create"
    /\ LET obj == StepObject(operators[idx], step) IN
       \/ /\ ObjectsAt(obj) = {}
          /\ objs' = objs \cup {obj}
          /\ stepCalls' = Append(stepCalls, ICall("create", obj, ErrNil))
          /\ stepRet' = ErrNil
          /\ AfterStep
          /\ ierr' = ierr
       \/ /\ ObjectsAt(obj) # {}
          /\ objs' = objs
          /\ stepCalls' = Append(stepCalls, ICall("create", obj, ErrAlreadyExists))
          /\ stepRet' = ErrAlreadyExists
          /\ ipc' = "done"
          /\ step' = step
          /\ ierr' = ErrAlreadyExists
       \/ /\ objs' = objs
          /\ stepCalls' = Append(stepCalls, ICall("create", obj, ErrInternal))
          /\ stepRet' = ErrInternal
          /\ ipc' = "done"
          /\ step' = step
          /\ ierr' = ErrInternal
    /\ touched' = touched \cup {idx}
    /\ UNCHANGED <<csvs, extWrites, prefix, idx, elapsed, polled, pollReads,
                   lastPhase, pollRet, rvars, wvars>>

\* Variant: phase Failed ends the poll like phase Succeeded.
isOperatorReadyFailedDone(getErr, csv) ==
    IF getErr # ErrNil /\ getErr # ErrNotFound
    THEN [done |-> FALSE, err |-> getErr]
    ELSE CASE csv.phase = "Failed" -> [done |-> TRUE, err |-> ErrNil]
           [] csv.phase = "Succeeded" -> [done |-> TRUE, err |-> ErrNil]
           [] OTHER -> [done |-> FALSE, err |-> ErrNil]

\* Variant: phase Succeeded is not recognised.
isOperatorReadyMissSucceeded(getErr, csv) ==
    IF getErr # ErrNil /\ getErr # ErrNotFound
    THEN [done |-> FALSE, err |-> getErr]
    ELSE CASE csv.phase = "Failed" ->
                [done |-> FALSE, err |-> "Operator installation failed: " \o csv.reason]
           [] OTHER -> [done |-> FALSE, err |-> ErrNil]

\* Variant: the error of phase Failed leaves out csv.Status.Reason.
isOperatorReadyNoReason(getErr, csv) ==
    IF getErr # ErrNil /\ getErr # ErrNotFound
    THEN [done |-> FALSE, err |-> getErr]
    ELSE CASE csv.phase = "Failed" ->
                [done |-> FALSE, err |-> "Operator installation failed"]
           [] csv.phase = "Succeeded" -> [done |-> TRUE, err |-> ErrNil]
           [] OTHER -> [done |-> FALSE, err |-> ErrNil]

\* Variant: a not-found answer of the Get is returned like any other error.
isOperatorReadyNotFoundFails(getErr, csv) ==
    IF getErr # ErrNil
    THEN [done |-> FALSE, err |-> getErr]
    ELSE CASE csv.phase = "Failed" ->
                [done |-> FALSE, err |-> "Operator installation failed: " \o csv.reason]
           [] csv.phase = "Succeeded" -> [done |-> TRUE, err |-> ErrNil]
           [] OTHER -> [done |-> FALSE, err |-> ErrNil]

\* isOperatorReady: the condition, given the outcome of client.Get(ctx, ns, csv)
\* and the csv it filled in (the zero value when the Get found nothing).
isOperatorReady(getErr, csv) ==
    IF getErr # ErrNil /\ getErr # ErrNotFound
    THEN [done |-> FALSE, err |-> getErr]
    ELSE CASE csv.phase = "Failed" ->
                [done |-> FALSE, err |-> "Operator installation failed: " \o csv.reason]
           [] csv.phase = "Succeeded" -> [done |-> TRUE, err |-> ErrNil]
           [] OTHER -> [done |-> FALSE, err |-> ErrNil]

ZeroCSV == [phase |-> "", reason |-> ""]

\* Install after waitForOperator returned nil: the next operator, or return nil.
AfterOperator ==
    IF idx < Len(operators)
    THEN /\ idx' = idx + 1
         /\ step' = 1
         /\ ipc' = "get"
         /\ elapsed' = 0
         /\ polled' = FALSE
         /\ pollReads' = 0
    ELSE /\ ipc' = "done"
         /\ polled' = TRUE
         /\ pollReads' = pollReads + 1
         /\ UNCHANGED <<idx, step, elapsed>>

\* Variant: a poll without timeout.
PollContinuesForever ==
    /\ ipc' = "poll"
    /\ ierr' = ierr

\* The poll goes on after a condition that returned (false, nil): wait for the
\* next interval, or give up when the timeout has elapsed.
PollContinues ==
    IF elapsed >= PollTimeout
    THEN /\ ipc' = "done"
         /\ ierr' = ErrWaitTimeout
    ELSE /\ ipc' = "poll"
         /\ ierr' = ierr

\* waitForOperator: one evaluation of the condition by wait.PollImmediate
waitForOperator ==
    /\ ipc = "poll"
    /\ ~polled
    /\ LET o == operators[idx]
           at == CSVsAt(o.namespace, o.csv)
       IN \E getErr \in {IF at = {} THEN ErrNotFound ELSE ErrNil, ErrInternal} :
          \E csv \in (IF getErr = ErrNil THEN at ELSE {ZeroCSV}) :
            LET r == isOperatorReady(getErr, csv) IN
            /\ pollRet' = getErr
            /\ lastPhase' = IF getErr = ErrInternal THEN lastPhase
                            ELSE [lastPhase EXCEPT ![idx] = csv.phase]
            /\ IF r.err # ErrNil
               THEN /\ ipc' = "done"
                    /\ ierr' = r.err
                    /\ polled' = TRUE
                    /\ pollReads' = pollReads + 1
                    /\ UNCHANGED <<idx, step, elapsed>>
               ELSE IF r.done
               THEN /\ AfterOperator
                    /\ ierr' = ierr
               ELSE /\ PollContinues
                    /\ polled' = TRUE
                    /\ pollReads' = pollReads + 1
                    /\ UNCHANGED <<idx, step, elapsed>>
    /\ touched' = touched \cup {idx}
    /\ UNCHANGED <<objs, csvs, extWrites, prefix, stepCalls, stepRet, rvars, wvars>>

\* wait.PollImmediate: the next interval has passed.
Tick ==
    /\ ipc = "poll"
    /\ polled
    /\ elapsed < PollTimeout
    /\ elapsed' = elapsed + PollInterval
    /\ polled' = FALSE
    /\ UNCHANGED <<objs, csvs, extWrites, prefix, ipc, idx, step, stepCalls, stepRet,
                   touched, pollReads, lastPhase, pollRet, ierr, rvars, wvars>>

Install ==
    \/ InstallStart
    \/ createResourceIfAbsentGet
    \/ createResourceIfAbsentCreate
    \/ waitForOperator
    \/ Tick

(***************************************************************************)
(* Other actors of the installer's cluster: the operator lifecycle manager *)
(* materialises and drives the ClusterServiceVersion of a Subscription;    *)
(* an administrator may create the installer's objects first.              *)
(***************************************************************************)
CSVCreated ==
    /\ ipc # "done"
    /\ \E i \in DOMAIN operators :
         LET o == operators[i] IN
         /\ ObjectsAt(GetSubscription(o)) # {}
         /\ CSVsAt(o.namespace, o.csv) = {}
         /\ csvs' = csvs \cup {[namespace |-> o.namespace, name |-> o.csv,
                                phase |-> "Pending", reason |-> ""]}
    /\ UNCHANGED <<objs, extWrites, prefix, ipc, idx, step, stepCalls, stepRet, touched,
                   elapsed, polled, pollReads, lastPhase, pollRet, ierr, rvars, wvars>>

CSVSucceeded ==
    /\ ipc # "done"
    /\ \E c \in csvs :
         /\ c.phase = "Pending"
         /\ csvs' = (csvs \ {c}) \cup
                    {[c EXCEPT !.phase = "Succeeded", !.reason = "InstallSucceeded"]}
    /\ UNCHANGED <<objs, extWrites, prefix, ipc, idx, step, stepCalls, stepRet, touched,
                   elapsed, polled, pollReads, lastPhase, pollRet, ierr, rvars, wvars>>

CSVFailed ==
    /\ ipc # "done"
    /\ \E c \in csvs, why \in Reasons :
         /\ c.phase = "Pending"
         /\ csvs' = (csvs \ {c}) \cup {[c EXCEPT !.phase = "Failed", !.reason = why]}
    /\ UNCHANGED <<objs, extWrites, prefix, ipc, idx, step, stepCalls, stepRet, touched,
                   elapsed, polled, pollReads, lastPhase, pollRet, ierr, rvars, wvars>>

ObjectCreatedByOther ==
    /\ ipc # "done"
    /\ extWrites < MaxExtWrites
    /\ \E i \in DOMAIN operators, s \in 1..3 :
         LET obj == StepObject(operators[i], s) IN
         /\ ObjectsAt(obj) = {}
         /\ objs' = objs \cup {WrittenByOther(obj)}
    /\ extWrites' = extWrites + 1
    /\ UNCHANGED <<csvs, prefix, ipc, idx, step, stepCalls, stepRet, touched,
                   elapsed, polled, pollReads, lastPhase, pollRet, ierr, rvars, wvars>>

InstallerClusterChange ==
    \/ CSVCreated
    \/ CSVSucceeded
    \/ CSVFailed
    \/ ObjectCreatedByOther

(***************************************************************************)
(* Specifications                                                          *)
(***************************************************************************)
Init ==
    /\ primaries = {}
    /\ route = NoObject
    /\ links = {}
    /\ rpc = "idle"
    /\ request = TargetIdentity
    /\ argoCDRoute = NoObject
    /\ found = NoObject
    /\ rcalls = <<>>
    /\ rres = NoResult
    /\ objs = {}
    /\ csvs = {}
    /\ extWrites = 0
    /\ prefix \in Prefixes
    /\ ipc = "idle"
    /\ idx = 1
    /\ step = 1
    /\ stepCalls = <<>>
    /\ stepRet = "none"
    /\ touched = {}
    /\ elapsed = 0
    /\ polled = FALSE
    /\ pollReads = 0
    /\ lastPhase = [i \in 1..2 |-> NoPhase]
    /\ pollRet = "none"
    /\ ierr = ErrNil
    /\ event = NoEvent
    /\ passed = FALSE
    /\ enqueued = {}
    /\ queue = {}

\* The reconciler and the cluster it watches.
Next == Reconcile \/ ClusterChange

Spec == Init /\ [][Next]_vars

\* The installer and the cluster it installs into.
NextInstall == Install \/ InstallerClusterChange

SpecInstall == Init /\ [][NextInstall]_vars

\* Install runs on its caller's thread and time passes: its steps are taken.
FairSpecInstall == SpecInstall /\ WF_vars(Install)

(***************************************************************************)
(* Reconciler properties                                                   *)
(***************************************************************************)
\* What the returned invocation observed, read off its calls.
Returned == rpc = "done"

Observed(i, kind, ret) ==
    /\ Len(rcalls) >= i
    /\ rcalls[i] = RCall("get", kind, ret)

\* No call of the invocation failed: a Get may find nothing, nothing else errs.
NoApiError ==
    \A i \in 1..Len(rcalls) :
        \/ rcalls[i].ret = ErrNil
        \/ rcalls[i].verb = "get" /\ rcalls[i].ret = ErrNotFound

Writes == {i \in 1..Len(rcalls) : rcalls[i].verb # "get"}

Creates == {i \in 1..Len(rcalls) : rcalls[i].verb = "create"}

Success == [requeue |-> FALSE, err |-> ErrNil]

\* C1: a reconciliation that found the Primary, found the Route with host h,
\* found no Link and met no API error has issued exactly one create, leaves
\* exactly one Link, of the fixed name, with href "https://" + h and text
\* "ArgoCD", and has returned success without requeue.
C1_LinkCreation ==
    \A h \in Hosts :
        ( /\ Returned
          /\ NoApiError
          /\ Observed(1, "ArgoCD", ErrNil)
          /\ Observed(2, "Route", ErrNil)
          /\ argoCDRoute = [host |-> h]
          /\ Observed(3, "ConsoleLink", ErrNotFound) )
        => /\ Cardinality(Creates) = 1
           /\ rcalls[Len(rcalls)] = RCall("create", "ConsoleLink", ErrNil)
           /\ Cardinality(links) = 1
           /\ \A l \in links : /\ l.name = "argocd"
                               /\ l.href = "https://" \o h
                               /\ l.text = "ArgoCD"
           /\ rres = Success

C1_Witness ==
    /\ Returned
    /\ NoApiError
    /\ Observed(1, "ArgoCD", ErrNil)
    /\ Observed(2, "Route", ErrNil)
    /\ argoCDRoute = [host |-> "foo.example.com"]
    /\ Observed(3, "ConsoleLink", ErrNotFound)
    /\ Len(rcalls) = 4
    /\ \E l \in links : l.href = "https://foo.example.com"

\* C2: a reconciliation that found no Primary, or found the Primary and no
\* Route, and met no API error leaves no Link (it deleted the Link if its read
\* found one), has issued no create, and has returned success.
C2_LinkAbsentWithoutPrimaryOrRoute ==
    ( /\ Returned
      /\ NoApiError
      /\ \/ Observed(1, "ArgoCD", ErrNotFound)
         \/ Observed(1, "ArgoCD", ErrNil) /\ Observed(2, "Route", ErrNotFound) )
    => /\ LinkNamed(consoleLinkName) = {}
       /\ Creates = {}
       /\ rres = Success
       /\ \A i \in 1..Len(rcalls) :
             rcalls[i] = RCall("get", "ConsoleLink", ErrNil)
             => /\ Len(rcalls) = i + 1
                /\ rcalls[i + 1] = RCall("delete", "ConsoleLink", ErrNil)

C2_Witness ==
    /\ Returned
    /\ rcalls = << RCall("get", "ArgoCD", ErrNil), RCall("get", "Route", ErrNotFound),
                   RCall("get", "ConsoleLink", ErrNil),
                   RCall("delete", "ConsoleLink", ErrNil) >>
    /\ links = {}
    /\ request \in primaries
    /\ rres = Success

InstallReturned == ipc = "done"

\* The ClusterServiceVersion of the operator the loop is at, as the cluster holds it.
CurrentCSVs == CSVsAt(operators[idx].namespace, operators[idx].csv)

\* Install returned an error that no API call produced.
ApiErrors == {ErrInternal, ErrAlreadyExists, ErrNotFound}

\* C4: an API call is issued for an operator of the list only after every
\* operator before it was read in phase Succeeded in this run; so when Install
\* has returned an error at operator idx, no call was issued for a later one.
C4_InstallOrdering ==
    /\ \A i \in touched : \A j \in 1..(i - 1) : lastPhase[j] = "Succeeded"
    /\ touched \subseteq 1..idx
    /\ (InstallReturned /\ ierr # ErrNil) =>
          \A i \in DOMAIN operators : i > idx => i \notin touched /\ lastPhase[i] = NoPhase

\* The first operator timed out: nothing was read or written for the second.
C4_Witness ==
    /\ InstallReturned
    /\ ierr = ErrWaitTimeout
    /\ idx = 1
    /\ touched = {1}
    /\ \A s \in 1..3 : ObjectsAt(StepObject(operators[2], s)) = {}

\* C5: Install returns nil only if every operator's ClusterServiceVersion was
\* read in phase Succeeded; a poll gives up only at the read made when the
\* timeout has elapsed; and when Install returns while the instance of the
\* operator it is at is in phase Succeeded and no API call erred, it returns
\* nil, having gone through the whole list.
C5_ReadinessSuccess ==
    InstallReturned =>
        /\ ierr = ErrNil => \A i \in DOMAIN operators : lastPhase[i] = "Succeeded"
        /\ ierr = ErrWaitTimeout => elapsed = PollTimeout
        /\ ( /\ ierr \notin ApiErrors
             /\ \E c \in CurrentCSVs : c.phase = "Succeeded" )
           => ierr = ErrNil /\ idx = Len(operators)

\* The second instance was read Succeeded at the last read the deadline allows.
C5_Witness ==
    /\ InstallReturned
    /\ ierr = ErrNil
    /\ lastPhase = [i \in 1..2 |-> "Succeeded"]
    /\ elapsed = PollTimeout

\* C6: once a poll read has found the instance in phase Failed, Install has
\* returned (no further poll, no step of a later operator), with an error that
\* embeds the instance's reason.
C6_ReadinessFailure ==
    \A i \in DOMAIN operators :
        lastPhase[i] = "Failed" =>
            /\ InstallReturned
            /\ idx = i
            /\ \E c \in CurrentCSVs :
                  /\ c.phase = "Failed"
                  /\ ierr = "Operator installation failed: " \o c.reason
            /\ \A j \in DOMAIN operators : j > i => j \notin touched

C6_Witness ==
    /\ InstallReturned
    /\ lastPhase[1] = "Failed"
    /\ elapsed > 0
    /\ ierr = "Operator installation failed: ComponentUnhealthy"

\* C7 (state part): the condition is evaluated once per interval, first at once;
\* no poll goes on after the read made when the timeout has elapsed; a poll
\* that timed out made PollTimeout / PollInterval + 1 reads, the last of them
\* of a non-terminal phase, and Install returned the timeout error.
PollBounded ==
    /\ elapsed <= PollTimeout
    /\ ipc = "poll" => pollReads = (elapsed \div PollInterval) + (IF polled THEN 1 ELSE 0)
    /\ ~(ipc = "poll" /\ polled /\ elapsed >= PollTimeout)
    /\ (InstallReturned /\ ierr = ErrWaitTimeout) =>
          /\ elapsed = PollTimeout
          /\ pollReads = (PollTimeout \div PollInterval) + 1
          /\ lastPhase[idx] \notin {"Succeeded", "Failed"}
          /\ ierr # ErrNil

InstallRunning == ipc \in {"get", "create", "poll"}

\* C7: every Install call returns, and the poll is bounded as PollBounded says.
C7_TimeoutAndTermination ==
    /\ []PollBounded
    /\ (InstallRunning ~> InstallReturned)

C7_Witness ==
    /\ InstallReturned
    /\ ierr = ErrWaitTimeout
    /\ pollReads = 61
    /\ lastPhase[idx] = "Pending"

\* C8: a createResourceIfAbsent whose Get found the object issued no other
\* call (no create) and returned nil.
C8_CreateIfAbsentIdempotent ==
    (stepCalls # <<>> /\ stepCalls[1].ret = ErrNil) =>
        /\ Len(stepCalls) = 1
        /\ stepCalls[1].verb = "get"
        /\ stepRet = ErrNil

\* A later run of Install finds the Subscription an earlier run created.
C8_Witness ==
    /\ ipc = "poll"
    /\ idx = 1
    /\ stepCalls = <<ICall("get", GetSubscription(operators[1]), ErrNil)>>
    /\ GetSubscription(operators[1]) \in objs
    /\ stepRet = ErrNil

\* C9: a createResourceIfAbsent whose Get found nothing and whose Create
\* answered already-exists returns nil, and Install goes on.
C9_CreateRaceIsSuccess ==
    ( /\ Len(stepCalls) = 2
      /\ stepCalls[1].ret = ErrNotFound
      /\ stepCalls[2].ret = ErrAlreadyExists )
    => /\ stepRet = ErrNil
       /\ ~(InstallReturned /\ ierr # ErrNil)

\* C10: no step removes or changes an object the cluster holds; a step of
\* Install leaves the ClusterServiceVersions as they are and adds at most the
\* one object it created; the installer's calls are Gets and Creates only.
C10_AppendOnly ==
    [][ /\ objs \subseteq objs'
        /\ Install => /\ csvs' = csvs
                      /\ Cardinality(objs' \ objs) <= 1
                      /\ \A i \in 1..Len(stepCalls') :
                            stepCalls'[i].verb \in {"get", "create"} ]_vars

\* The Subscription another actor wrote is there, as written, after the step.
C10_Witness ==
    /\ ipc = "poll"
    /\ stepCalls = <<ICall("get", GetSubscription(operators[idx]), ErrNil)>>
    /\ WrittenByOther(GetSubscription(operators[idx])) \in objs

\* A call of the invocation that failed: a Get with an error other than
\* not-found, a Create or Delete with any error.
Failed(i) ==
    \/ rcalls[i].verb = "get" /\ rcalls[i].ret \notin {ErrNil, ErrNotFound}
    \/ rcalls[i].verb # "get" /\ rcalls[i].ret # ErrNil

Reads == {i \in 1..Len(rcalls) : rcalls[i].verb = "get"}

Deletes == {i \in 1..Len(rcalls) : rcalls[i].verb = "delete"}

\* C11: a call of a reconciliation that failed (a read of the Primary, the
\* Route or the Link with an error other than not-found, a create or delete
\* of the Link with any error) is the last call of the invocation, the
\* invocation has returned with it, and what it returned is that error; so a
\* reconciliation that returned nil met no such error.
C11_ReconcileErrorPropagation ==
    /\ \A i \in 1..Len(rcalls) :
          Failed(i) => /\ i = Len(rcalls)
                       /\ Returned
                       /\ rres = RReturn(rcalls[i].ret)
    /\ (Returned /\ rres = Success) => NoApiError

\* The Create was answered already-exists (another actor created the Link
\* after the Get) and Reconcile returned that error.
C11_Witness ==
    /\ Returned
    /\ Len(rcalls) = 4
    /\ rcalls[4] = RCall("create", "ConsoleLink", ErrAlreadyExists)
    /\ rres = RReturn(ErrAlreadyExists)

\* C19: a step of Reconcile changes the set of ConsoleLinks only in the step
\* with which the invocation returns nil (a failed create or delete leaves
\* the store as it is); so in a reconciliation that returned an error no
\* write took effect and the Link is as the other actors left it.
C19_LinkUnchangedOnError ==
    /\ [][(Reconcile /\ links' # links) => (Returned' /\ rres' = Success)]_vars
    /\ [](Returned /\ rres # Success => \A i \in Writes : rcalls[i].ret # ErrNil)

\* Reconcile returned the error of its Create, and no Link is there, as
\* before the Create.
C19_Witness ==
    /\ Returned
    /\ rres = RReturn(ErrInternal)
    /\ Len(rcalls) = 4
    /\ rcalls[4] = RCall("create", "ConsoleLink", ErrInternal)
    /\ LinkNamed(consoleLinkName) = {}

\* The calls of an invocation, in order, are reads of distinct kinds among
\* Primary, Route and Link followed by at most one write of the Link.
BoundedCalls ==
    /\ Cardinality(Reads) <= 3
    /\ \A i, j \in Reads : rcalls[i].kind = rcalls[j].kind => i = j
    /\ Cardinality(Writes) <= 1
    /\ \A i \in Writes : /\ rcalls[i].kind = "ConsoleLink"
                         /\ rcalls[i].verb \in {"create", "delete"}
                         /\ i = Len(rcalls)
    /\ ~(Creates # {} /\ Deletes # {})

\* C20: an invocation of Reconcile makes at most three reads (one each of the
\* Primary, the Route and the Link) and at most one write, a create or a
\* delete of the Link and never both; until it has returned its next step is
\* enabled, and a write is the step it returns with; no step of Reconcile
\* changes the Primary or the Route.
C20_BoundedWork ==
    /\ [](BoundedCalls)
    /\ [](rpc \notin {"idle", "done"} => ENABLED Reconcile)
    /\ [](Writes # {} => Returned)
    /\ [][Reconcile => UNCHANGED <<primaries, route>>]_vars

\* Three reads and one create, and the invocation returned.
C20_Witness ==
    /\ Returned
    /\ Cardinality(Reads) = 3
    /\ Creates # {}
    /\ rres = Success

\* C14: at a successful return of a reconciliation that found the Primary,
\* the Route and a Link the reconciler had created, the Link's href is
\* "https://" + the host of the Route as this reconciliation read it.
C14_LinkTracksRoute ==
    ( /\ Returned
      /\ rres = Success
      /\ Observed(1, "ArgoCD", ErrNil)
      /\ Observed(2, "Route", ErrNil)
      /\ Observed(3, "ConsoleLink", ErrNil)
      /\ found.text = "ArgoCD" )
    => \A l \in LinkNamed(consoleLinkName) : l.href = "https://" \o argoCDRoute.host

\* C15: a reconciliation that found the Primary or the Route absent and met
\* no error other than not-found in any of its calls returns nil, also when
\* its Delete finds the Link already removed.
C15_DeleteIdempotent ==
    ( /\ Returned
      /\ Observed(1, "ArgoCD", ErrNotFound) \/ Observed(2, "Route", ErrNotFound)
      /\ \A i \in 1..Len(rcalls) : rcalls[i].ret \in {ErrNil, ErrNotFound} )
    => rres = Success

(***************************************************************************)
(* The reconciler alone in a cluster at rest: the Primary, the Route and   *)
(* the Link are as some earlier history left them, no other actor writes   *)
(* and no API call fails.                                                  *)
(***************************************************************************)
InitQuiet ==
    /\ primaries \in SUBSET Identities
    /\ route \in {NoObject} \cup {[host |-> h] : h \in Hosts}
    /\ links \in {{}, {ManualLink}} \cup {{desiredConsoleLink(h)} : h \in Hosts}
    /\ rpc = "idle"
    /\ request = TargetIdentity
    /\ argoCDRoute = NoObject
    /\ found = NoObject
    /\ rcalls = <<>>
    /\ rres = NoResult
    /\ objs = {}
    /\ csvs = {}
    /\ extWrites = 0
    /\ prefix \in Prefixes
    /\ ipc = "idle"
    /\ idx = 1
    /\ step = 1
    /\ stepCalls = <<>>
    /\ stepRet = "none"
    /\ touched = {}
    /\ elapsed = 0
    /\ polled = FALSE
    /\ pollReads = 0
    /\ lastPhase = [i \in 1..2 |-> NoPhase]
    /\ pollRet = "none"
    /\ ierr = ErrNil
    /\ event = NoEvent
    /\ passed = FALSE
    /\ enqueued = {}
    /\ queue = {}

NextQuiet == Reconcile /\ NoApiError'

SpecQuiet == InitQuiet /\ [][NextQuiet]_vars

TargetPresent == TargetIdentity \in primaries /\ route # NoObject

\* C13: in a cluster at rest, when a reconciliation has returned, the Link
\* exists if and only if the Primary (at the target identity) and the Route
\* both exist; the run may end there, so "from then on" needs it at every
\* such return.
C13_LevelTriggeredConvergence ==
    Returned => (LinkNamed(consoleLinkName) # {} <=> TargetPresent)

\* C18: in a cluster at rest, no step of a reconciliation removes the Link
\* while the Primary at the target identity and the Route exist, whatever
\* identity the request carries.
C18_KeyedByTargetIdentity ==
    [][(TargetPresent /\ LinkNamed(consoleLinkName) # {})
         => LinkNamed(consoleLinkName)' # {}]_vars

(***************************************************************************)
(* add: the two watches of the controller, their predicate and handlers    *)
(***************************************************************************)
MaxRV == 2

assertArgoCD(namespace, name) == namespace = argocdNS /\ argocdInstanceName = name

assertArgoCDRoute(namespace, name) == namespace = argocdNS /\ argocdRouteName = name

\* The assert function the watch's filterPredicate was built with.
assert(watch, namespace, name) ==
    IF watch = "ArgoCD" THEN assertArgoCD(namespace, name)
    ELSE assertArgoCDRoute(namespace, name)

\* Variant: an update passes on the identity alone.
UpdateFuncAnyVersion(watch, e) == assert(watch, e.namespace, e.name)

UpdateFunc(watch, e) ==
    /\ assert(watch, e.namespace, e.name)
    /\ e.newRV # e.oldRV

CreateFunc(watch, e) == assert(watch, e.namespace, e.name)

DeleteFunc(watch, e) == assert(watch, e.namespace, e.name)

filterPredicate(watch, e) ==
    CASE e.type = "update" -> UpdateFunc(watch, e)
      [] e.type = "create" -> CreateFunc(watch, e)
      [] e.type = "delete" -> DeleteFunc(watch, e)

\* handler.EnqueueRequestForObject: the object's own identity.
EnqueueRequestForObject(e) == {[namespace |-> e.namespace, name |-> e.name]}

\* handler.EnqueueRequestForOwner{IsController: true, OwnerType: ArgoCD}: the
\* object's namespace with the name of its controlling ArgoCD owner, if any.
EnqueueRequestForOwner(e) ==
    IF e.owner = "" THEN {} ELSE {[namespace |-> e.namespace, name |-> e.owner]}

\* The events a watch of the given kind can deliver. An ArgoCD has no
\* ArgoCD owner; a create or delete event carries one resource version.
Events(watch) ==
    {e \in [watch : {watch}, type : {"create", "update", "delete"},
            namespace : {argocdNS, "default"},
            name : {argocdInstanceName, argocdRouteName, "argocd-2"},
            oldRV : 1..MaxRV, newRV : 1..MaxRV,
            owner : {"", argocdInstanceName, "argocd-2"}] :
        /\ watch = "ArgoCD" => e.owner = ""
        /\ e.type # "update" => e.oldRV = e.newRV}

\* c.Watch(ArgoCD, EnqueueRequestForObject, filterPredicate(assertArgoCD))
ArgoCDWatch ==
    /\ \E e \in Events("ArgoCD") :
         /\ event' = e
         /\ passed' = filterPredicate("ArgoCD", e)
         /\ enqueued' = IF passed' THEN EnqueueRequestForObject(e) ELSE {}
    /\ queue' = queue \cup enqueued'
    /\ UNCHANGED <<rvars, ivars>>

\* c.Watch(Route, EnqueueRequestForOwner, filterPredicate(assertArgoCDRoute))
RouteWatch ==
    /\ \E e \in Events("Route") :
         /\ event' = e
         /\ passed' = filterPredicate("Route", e)
         /\ enqueued' = IF passed' THEN EnqueueRequestForOwner(e) ELSE {}
    /\ queue' = queue \cup enqueued'
    /\ UNCHANGED <<rvars, ivars>>

\* The dispatcher takes a request off the queue to call Reconcile with it.
Dequeue ==
    /\ \E req \in queue : queue' = queue \ {req}
    /\ UNCHANGED <<event, passed, enqueued, rvars, ivars>>

NextWatch == ArgoCDWatch \/ RouteWatch \/ Dequeue

SpecWatch == Init /\ [][NextWatch]_vars

\* The identity each watch is meant for.
WatchTarget ==
    IF event.watch = "ArgoCD" THEN [namespace |-> "argocd", name |-> "argocd"]
    ELSE [namespace |-> "argocd", name |-> "argocd-server"]

EventIdentity == [namespace |-> event.namespace, name |-> event.name]

\* C12: an update event that passed the filter is for the watch's target
\* identity and carries a new resource version different from the old one;
\* an update with unchanged version enqueues no request; a create or delete
\* event that passed is for the target identity; an event that did not pass
\* enqueues nothing.
C12_TriggerFiltering ==
    event # NoEvent =>
      /\ (event.type = "update" /\ passed)
            => (EventIdentity = WatchTarget /\ event.newRV # event.oldRV)
      /\ (event.type = "update" /\ event.newRV = event.oldRV) => enqueued = {}
      /\ (event.type \in {"create", "delete"} /\ passed) => EventIdentity = WatchTarget
      /\ ~passed => enqueued = {}

\* An update of the Route argocd/argocd-server, owned by an ArgoCD, whose
\* resource version did not change was delivered and enqueued nothing.
C12_Witness ==
    /\ event # NoEvent
    /\ event.watch = "Route"
    /\ event.type = "update"
    /\ EventIdentity = WatchTarget
    /\ event.owner # ""
    /\ event.newRV = event.oldRV
    /\ ~passed
    /\ enqueued = {}

\* The kinds of the three static resources of a descriptor, in Install's order.
StepKind == <<"Namespace", "OperatorGroup", "Subscription">>

StepCallsOfKind(kind) == \A i \in 1..Len(stepCalls) : stepCalls[i].kind = kind

\* C16: within a descriptor, the calls for the Namespace come first, then
\* those for the OperatorGroup, then those for the Subscription, then the
\* poll: a step is begun only when the step before it returned nil, a Create
\* only after its step's Get answered not-found, the poll only after the
\* Subscription's step returned nil. A step that returned an error (a Get
\* error other than not-found, any Create error) has ended Install with
\* that error, with no call for a later step and no read of the poll.
C16_StepOrder ==
    /\ ipc = "create" => /\ stepCalls = <<[verb |-> "get", kind |-> StepKind[step],
                                           ret |-> ErrNotFound]>>
                         /\ stepRet = "none"
    /\ (ipc = "get" /\ step > 1) => /\ stepRet = ErrNil
                                    /\ stepCalls # <<>>
                                    /\ StepCallsOfKind(StepKind[step - 1])
    /\ ipc \in {"get", "create"} => pollReads = 0 /\ ~polled /\ elapsed = 0
    /\ ipc = "poll" => /\ step = 3
                       /\ stepRet = ErrNil
                       /\ stepCalls # <<>>
                       /\ StepCallsOfKind("Subscription")
    /\ stepRet \notin {ErrNil, "none"} =>
          /\ InstallReturned
          /\ ierr = stepRet
          /\ stepCalls[Len(stepCalls)].ret = stepRet
          /\ StepCallsOfKind(StepKind[step])
          /\ pollReads = 0 /\ ~polled /\ elapsed = 0

\* The Create of the first descriptor's OperatorGroup failed and Install
\* returned its error.
C16_Witness ==
    /\ InstallReturned
    /\ idx = 1
    /\ step = 2
    /\ stepCalls = <<ICall("get", GetOperatorGroup(operators[1]), ErrNotFound),
                     ICall("create", GetOperatorGroup(operators[1]), ErrInternal)>>
    /\ ierr = ErrInternal

\* C17: after an evaluation of the poll's condition whose Get answered
\* not-found, or found the instance in a phase other than Succeeded and
\* Failed, the poll goes on and Install holds no error (at the timeout the
\* poll gives up with the timeout error, C7); after an evaluation whose Get
\* answered another error Install has returned, with that error.
C17_PollClassification ==
    /\ ( /\ polled
         /\ pollRet \in {ErrNil, ErrNotFound}
         /\ lastPhase[idx] \notin {"Succeeded", "Failed"} )
       => IF elapsed < PollTimeout
          THEN ipc = "poll" /\ ierr = ErrNil
          ELSE InstallReturned /\ ierr = ErrWaitTimeout
    /\ pollRet = ErrNotFound => lastPhase[idx] = ZeroCSV.phase
    /\ pollRet = ErrInternal => /\ InstallReturned
                                /\ ierr = ErrInternal
                                /\ polled

\* The second evaluation read the instance in phase Pending; the poll goes on.
C17_Witness ==
    /\ ipc = "poll"
    /\ polled
    /\ elapsed = PollInterval
    /\ pollRet = ErrNil
    /\ lastPhase[idx] = "Pending"
    /\ ierr = ErrNil

====
